---------------------------- MODULE Spec2Model ----------------------------
(***************************************************************************)
(* The frame streaming coordinator of Violina: the Webcam component        *)
(* (front-end/src/components/Webcam.jsx, second definition, lines 80-343)  *)
(* driven by Home (front-end/src/pages/Home.jsx), together with the        *)
(* browser and Socket.IO environment it runs against.                      *)
(*                                                                         *)
(* Every k-th resumption of startWebcam creates camera stream k, socket k  *)
(* and capture loop k, so the three share one identifier space.            *)
(* The component stays mounted; React applies the state updates of one     *)
(* callback in one batch, so a handler is one step.                        *)
(*                                                                         *)
(* The other parts of the system have their own specifications over their  *)
(* own variables, and hold the variables of the other parts at idle        *)
(* values:                                                                 *)
(*   ScaleSpec      the frame downsampling of frameLoop;                   *)
(*   ScoreSpec      the comparator of the back end applied to reference    *)
(*                  sets and frames;                                       *)
(*   ServerSpec     one session of the Session Server;                     *)
(*   BucketSpec     the accuracy bucket of every percentage;               *)
(*   AggregateSpec  baseline collection over the samples of one joint;     *)
(*   PollSpec       the HTTP-polling WebcamStream (unnamed/part_005);      *)
(*   ToneSpec       Home's play-tone effect on the score;                  *)
(*   BridgeSpec     the serial bridge and the buzzer firmware;             *)
(*   TempoSpec      the BPM controls and tap tempo of the Metronome;       *)
(*   MetronomeSpec  the Metronome's start, stop and scheduler;             *)
(*   TunerSpec      the Tuner's autoCorrelate on one analyser frame.       *)
(* The back end's code is not among the sources: it is modelled from its   *)
(* design and from back-end/pose_comparison.md and drawingLines.md.        *)
(***************************************************************************)
EXTENDS Integers, Sequences, FiniteSets, TLC

\* ------------------------------------------------------------- bounds
MaxStarts == 3      \* calls of Home.handleStartWebcam
MaxPicture == 2     \* distinct pictures the camera delivers
MaxVideoWidth == 1030   \* source video widths 0..MaxVideoWidth
MaxVideoHeight == 50    \* source video heights 1..MaxVideoHeight
MaxReferences == 3      \* reference frames of one baseline collection
MaxChecks == 20         \* evaluated checks of one comparison
MaxSamples == 5         \* samples of one joint in a collection
MaxPolls == 3           \* POST /score requests of the polling WebcamStream
MaxPosts == 2           \* POST /play-tone requests the bridge receives
MaxNoise == 1           \* serial lines that do not come from the bridge
MaxPresses == 2         \* presses of the BPM buttons and moves of the slider
MaxClock == 5000        \* milliseconds of Date.now() the taps are spread over
MaxClicks == 4          \* clicks recorded since the last start
MaxTimers == 2          \* interval identifiers
BufferLength == 12      \* samples of one analyser frame
MaxTones == 4           \* play-tone requests Home issues, and drops of the score

\* ------------------------------------------------------------- values
NoRef == 0          \* a ref holding null
Ids == 1..MaxStarts
Null == <<>>        \* a nullable value is <<>> or <<v>>
Some(v) == <<v>>
Abs(x) == IF x < 0 THEN -x ELSE x
NoJoints == {}
SomeJoints == {"left_wrist"}
ReplyKinds == {"ok", "bare", "err"}
\* the thresholds of a session before any configure call: hundredths of the
\* normalized unit, degrees, per cent
DefaultConfig ==
  [position_threshold |-> 10, angle_threshold |-> 15, accuracy_threshold |-> 75]

VARIABLES
  nStarted,         \* calls of handleStartWebcam so far
  homePending,      \* Home's getUserMedia calls not yet settled
  camPending,       \* startWebcam calls suspended at their await
  nSessions,        \* resumptions of startWebcam so far
  homeStreams,      \* live streams acquired by Home (never referenced again)
  liveStreams,      \* streams acquired by Webcam whose tracks are running
  streamRef, srcObject, videoReady,
  picture, canvas,
  socketRef,
  sock,             \* per socket: unused, connecting, up, lost or closed
  inFlight,         \* per socket: the frames emitted on it and not yet answered
  frameRequestRef, loops,
  waitingRef, processedImg,
  score, error, joints, isActive, isWebcamActive,
  \* history variables
  stopCalls,        \* stopWebcam calls made in a row just now, counted to 2
  stopped,          \* stop was called and handleStartWebcam not since
  unhandled,        \* an exception escaped a handler
  \* frame downsampling
  videoWidth, videoHeight,      \* video.videoWidth, video.videoHeight
  canvasWidth, canvasHeight,    \* canvas.width, canvas.height; 0 before a draw
  \* pose comparison
  references,       \* the NormalizedFrames captured as reference material
  method,           \* the aggregation method of the last collection
  baseline,         \* the session's active BaselinePosture, or null
  probe,            \* the frame last compared
  result,           \* the ComparisonResult last produced, or null
  \* session server
  config,           \* the session's ScoringConfig
  call,             \* the scoring call in flight, or null
  reply,            \* the reply last sent to the client, or null
  outcome,          \* what the last configure call returned, or null
  refused,          \* history: a comparison has failed with NoBaselineError
  \* HTTP-polling WebcamStream
  pollMounted,      \* the interval is set
  pollIssued,       \* POST /score requests issued so far
  pollPending,      \* the requests whose fetch has not settled
  pollLoading,      \* useState(null) loading
  pollScore,        \* useState(null) score
  pollError,        \* useState(null) error
  pollShown,        \* history: the request whose response set score and error
  \* Home's play-tone effect
  lastToneScore,    \* useState(null) lastToneScore
  toneEffectDue,    \* a dependency of the effect changed: it runs next
  toneRequests,     \* POST /play-tone requests issued so far
  toneDrops,        \* history: times score went from null or >= 10 to below 10
  \* serial bridge and buzzer firmware
  serialPort,       \* Null, or the SerialPort with its isOpen flag
  posts,            \* POST /play-tone requests received so far
  writing,          \* the requests whose write callback has not run
  answers,          \* per request, the responses sent
  writes,           \* per request, the lines passed to serialPort.write
  portSeen,         \* history: per request, the port was open when it came
  serial,           \* the lines waiting in the Arduino's receive buffer
  commands,         \* history: the lines loop() has read
  tones,            \* calls of tone()
  oks,              \* OK lines the firmware has printed
  \* Metronome
  bpm,              \* useState(120) bpm
  isPlaying,        \* useState(false) isPlaying
  currentBeat,      \* useState(0) currentBeat
  timeSignature,    \* the beats of useState(TIME_SIGNATURES[2]) timeSignature
  intervalRef,      \* Null, or the identifier setInterval returned
  currentBeatRef,   \* useRef(0) currentBeatRef
  nextNoteDue,      \* nextNoteTimeRef is not later than the audio clock
  timers,           \* the active intervals, each with the beats its scheduler closes over
  clicks,           \* history: the clicks since the last start
  tapTimes,         \* useRef([]) tapTimes
  now,              \* Date.now()
  timeouts,         \* the due times of the pending tap timeouts
  presses,          \* BPM button presses and slider moves so far
  \* Tuner
  buffer,           \* the time-domain data of the frame, in 1/128
  sampleRate,       \* audioContextRef.current.sampleRate
  frequency,        \* useState(null) frequency
  pitchDone,        \* updatePitch has run on the frame
  prior,            \* history: frequency before the frame
  refined           \* history: the difference and the shift of the frame

client == <<streamRef, srcObject, videoReady, canvas, socketRef,
            frameRequestRef, waitingRef, processedImg>>
home == <<score, error, joints, isActive, isWebcamActive>>
env == <<nStarted, homePending, camPending, nSessions, homeStreams,
         liveStreams, picture, sock, inFlight, loops>>
hist == <<stopCalls, stopped, unhandled>>
webcam == <<client, home, env, hist>>
scaling == <<videoWidth, videoHeight, canvasWidth, canvasHeight>>
pose == <<references, method, baseline, probe, result>>
server == <<config, call, reply, outcome, refused>>
polling == <<pollMounted, pollIssued, pollPending, pollLoading, pollScore,
             pollError, pollShown>>
toning == <<lastToneScore, toneEffectDue, toneRequests, toneDrops>>
bridge == <<serialPort, posts, writing, answers, writes, portSeen>>
firmware == <<serial, commands, tones, oks>>
player == <<isPlaying, currentBeat, intervalRef, currentBeatRef, nextNoteDue,
            timers, clicks>>
tapping == <<tapTimes, now, timeouts>>
metronome == <<bpm, timeSignature, presses, player, tapping>>
tuner == <<buffer, sampleRate, frequency, pitchDone, prior, refined>>
others == <<polling, toning, bridge, firmware, metronome, tuner>>
outside == <<scaling, pose, server, others>>   \* what the Webcam lifecycle leaves alone
vars == <<webcam, outside>>

ScaleIdle ==
  /\ videoWidth = 0 /\ videoHeight = 0
  /\ canvasWidth = 0 /\ canvasHeight = 0

WebcamIdle ==
  /\ nStarted = 0 /\ homePending = 0 /\ camPending = 0 /\ nSessions = 0
  /\ homeStreams = 0 /\ liveStreams = {}
  /\ streamRef = NoRef /\ srcObject = NoRef /\ videoReady = FALSE
  /\ picture = 1 /\ canvas = 0
  /\ socketRef = NoRef
  /\ sock = [k \in Ids |-> "unused"]
  /\ inFlight = [k \in Ids |-> <<>>]
  /\ frameRequestRef = NoRef /\ loops = {}
  /\ waitingRef = FALSE /\ processedImg = Null
  /\ score = Null /\ error = Null /\ joints = NoJoints
  /\ isActive = FALSE /\ isWebcamActive = FALSE
  /\ stopCalls = 0 /\ stopped = FALSE /\ unhandled = FALSE

PoseIdle ==
  /\ references = <<>> /\ method = "median"
  /\ baseline = Null /\ probe = Null /\ result = Null

ServerIdle ==
  /\ config = DefaultConfig
  /\ call = Null /\ reply = Null /\ outcome = Null /\ refused = FALSE

PollIdle ==
  /\ pollMounted = FALSE /\ pollIssued = 0 /\ pollPending = {}
  /\ pollLoading = Null /\ pollScore = Null /\ pollError = Null
  /\ pollShown = 0

ToneIdle ==
  /\ lastToneScore = Null /\ toneEffectDue = FALSE
  /\ toneRequests = 0 /\ toneDrops = 0

Posts == 1..MaxPosts

BridgeIdle ==
  /\ serialPort = Null /\ posts = 0 /\ writing = {}
  /\ answers = [r \in Posts |-> <<>>]
  /\ writes = [r \in Posts |-> <<>>]
  /\ portSeen = [r \in Posts |-> FALSE]
  /\ serial = <<>> /\ commands = <<>> /\ tones = 0 /\ oks = 0

MetronomeIdle ==
  /\ bpm = 120 /\ isPlaying = FALSE /\ currentBeat = 0 /\ timeSignature = 4
  /\ intervalRef = Null /\ currentBeatRef = 0 /\ nextNoteDue = FALSE
  /\ timers = {} /\ clicks = <<>>
  /\ tapTimes = <<>> /\ now = 0 /\ timeouts = {} /\ presses = 0

TunerIdle ==
  /\ buffer = <<>> /\ sampleRate = 0 /\ frequency = Null
  /\ pitchDone = FALSE /\ prior = Null /\ refined = Null

OthersIdle == PollIdle /\ ToneIdle /\ BridgeIdle /\ MetronomeIdle /\ TunerIdle

Init == WebcamIdle /\ ScaleIdle /\ PoseIdle /\ ServerIdle /\ OthersIdle

\* ------------------------------------------------------------- Home

\* Home.handleStartWebcam up to its await
HandleStartWebcam ==
  /\ nStarted < MaxStarts
  /\ nStarted' = nStarted + 1
  /\ homePending' = homePending + 1
  /\ stopped' = FALSE
  /\ stopCalls' = 0
  /\ UNCHANGED <<client, home, camPending, nSessions, homeStreams, liveStreams,
                 picture, sock, inFlight, loops,
                 unhandled>>
  /\ UNCHANGED outside

\* Home's getUserMedia resolves: the stream is passed to startWebcam, which
\* takes no parameter and suspends at its own getUserMedia
HomeStreamGranted ==
  /\ homePending > 0
  /\ homePending' = homePending - 1
  /\ homeStreams' = homeStreams + 1
  /\ camPending' = camPending + 1
  /\ isWebcamActive' = TRUE
  /\ stopCalls' = 0
  /\ UNCHANGED <<client, score, error, joints, isActive, nStarted, nSessions,
                 liveStreams, picture, sock, inFlight, loops,
                 stopped, unhandled>>
  /\ UNCHANGED outside

\* Home's getUserMedia rejects: caught, alert
HomeStreamDenied ==
  /\ homePending > 0
  /\ homePending' = homePending - 1
  /\ stopCalls' = 0
  /\ UNCHANGED <<client, home, nStarted, camPending, nSessions, homeStreams,
                 liveStreams, picture, sock, inFlight, loops,
                 stopped, unhandled>>
  /\ UNCHANGED outside

\* ------------------------------------------------------------- Webcam

\* startWebcam after its await: streamRef, srcObject, connectSocket,
\* startFrameCapture, setIsActive(true)
StartWebcam ==
  /\ camPending > 0
  /\ camPending' = camPending - 1
  /\ nSessions' = nSessions + 1
  /\ LET k == nSessions + 1 IN
       /\ liveStreams' = liveStreams \cup {k}
       /\ streamRef' = k
       /\ srcObject' = k
       /\ videoReady' = FALSE
       /\ socketRef' = k
       /\ sock' = [sock EXCEPT ![k] = "connecting"]
       /\ loops' = loops \cup {k}
       /\ frameRequestRef' = k
  /\ isActive' = TRUE
  /\ stopCalls' = 0
  /\ UNCHANGED <<canvas, waitingRef, processedImg, score, error, joints,
                 isWebcamActive, nStarted, homePending, homeStreams, picture,
                 inFlight, stopped, unhandled>>
  /\ UNCHANGED outside

\* startWebcam's getUserMedia rejects: the promise Home does not await rejects
StartWebcamRejected ==
  /\ camPending > 0
  /\ camPending' = camPending - 1
  /\ unhandled' = TRUE
  /\ stopCalls' = 0
  /\ UNCHANGED <<client, home, nStarted, homePending, nSessions, homeStreams,
                 liveStreams, picture, sock, inFlight, loops,
                 stopped>>
  /\ UNCHANGED outside

MarkStale(q) == [i \in DOMAIN q |-> [q[i] EXCEPT !.live = FALSE]]

\* stopWebcam without the null check on socketRef: the second statement throws
\* when no socket is held, and the rest of the handler does not run
StopWebcamUnguarded ==
  /\ loops' = IF frameRequestRef # NoRef THEN loops \ {frameRequestRef} ELSE loops
  /\ frameRequestRef' = NoRef
  /\ stopped' = TRUE
  /\ stopCalls' = IF stopCalls < 2 THEN stopCalls + 1 ELSE stopCalls
  /\ IF socketRef = NoRef
       THEN /\ unhandled' = TRUE
            /\ UNCHANGED <<sock, inFlight, socketRef, liveStreams, streamRef,
                           srcObject, videoReady, waitingRef, processedImg,
                           isActive, isWebcamActive>>
       ELSE /\ sock' = [sock EXCEPT ![socketRef] = "closed"]
            /\ inFlight' = [k \in Ids |-> IF k = socketRef THEN <<>>
                                                          ELSE MarkStale(inFlight[k])]
            /\ socketRef' = NoRef
            /\ liveStreams' = IF streamRef # NoRef THEN liveStreams \ {streamRef}
                                                   ELSE liveStreams
            /\ streamRef' = NoRef
            /\ srcObject' = NoRef
            /\ videoReady' = FALSE
            /\ waitingRef' = FALSE
            /\ processedImg' = Null
            /\ isActive' = FALSE
            /\ isWebcamActive' = FALSE
            /\ UNCHANGED unhandled
  /\ UNCHANGED <<canvas, score, error, joints, nStarted, homePending, camPending,
                 nSessions, homeStreams, picture>>
  /\ UNCHANGED outside

\* stopWebcam, called through Home.handleStopWebcam
StopWebcam ==
  /\ loops' = IF frameRequestRef # NoRef THEN loops \ {frameRequestRef} ELSE loops
  /\ frameRequestRef' = NoRef
  /\ sock' = IF socketRef # NoRef THEN [sock EXCEPT ![socketRef] = "closed"] ELSE sock
  /\ inFlight' = [k \in Ids |-> IF k = socketRef THEN <<>> ELSE MarkStale(inFlight[k])]
  /\ socketRef' = NoRef
  /\ liveStreams' = IF streamRef # NoRef THEN liveStreams \ {streamRef} ELSE liveStreams
  /\ streamRef' = NoRef
  /\ srcObject' = NoRef
  /\ videoReady' = FALSE
  /\ waitingRef' = FALSE
  /\ processedImg' = Null
  /\ isActive' = FALSE
  /\ isWebcamActive' = FALSE
  /\ stopped' = TRUE
  /\ stopCalls' = IF stopCalls < 2 THEN stopCalls + 1 ELSE stopCalls
  /\ UNCHANGED <<canvas, score, error, joints, nStarted, homePending, camPending,
                 nSessions, homeStreams, picture, unhandled>>
  /\ UNCHANGED outside

\* the frame a tick captures and sends
Frame == [pic |-> picture, live |-> TRUE]

\* frameLoop drawing the picture into the canvas before it tests the latch
FrameLoopDrawsFirst(l) ==
  /\ l \in loops
  /\ frameRequestRef' = l
  /\ stopCalls' = 0
  /\ IF ~videoReady
       THEN UNCHANGED <<canvas, waitingRef, inFlight>>
       ELSE /\ canvas' = picture
            /\ IF ~waitingRef /\ socketRef # NoRef /\ sock[socketRef] = "up"
                 THEN /\ waitingRef' = TRUE
                      /\ inFlight' = [inFlight EXCEPT ![socketRef] = Append(@, Frame)]
                 ELSE UNCHANGED <<waitingRef, inFlight>>
  /\ UNCHANGED <<streamRef, srcObject, videoReady, socketRef, processedImg, home,
                 nStarted, homePending, camPending, nSessions, homeStreams,
                 liveStreams, picture, sock, loops, stopped, unhandled>>
  /\ UNCHANGED outside

\* frameLoop, the requestAnimationFrame callback of capture loop l
FrameLoop(l) ==
  /\ l \in loops
  /\ frameRequestRef' = l
  /\ stopCalls' = 0
  /\ IF ~videoReady \/ waitingRef
       THEN UNCHANGED <<canvas, waitingRef, inFlight>>
       ELSE /\ canvas' = picture
            /\ IF socketRef # NoRef /\ sock[socketRef] = "up"
                 THEN /\ waitingRef' = TRUE
                      /\ inFlight' = [inFlight EXCEPT ![socketRef] = Append(@, Frame)]
                 ELSE UNCHANGED <<waitingRef, inFlight>>
  /\ UNCHANGED <<streamRef, srcObject, videoReady, socketRef, processedImg, home,
                 nStarted, homePending, camPending, nSessions, homeStreams,
                 liveStreams, picture, sock, loops, stopped, unhandled>>
  /\ UNCHANGED outside

\* the reply of the session server to frame f
Reply(kind, f) ==
  [error |-> IF kind = "err" THEN Some("No pose detected") ELSE Null,
   score |-> IF kind = "bare" THEN Null ELSE Some(95),
   joints |-> IF kind = "bare" THEN Null ELSE Some(SomeJoints),
   processed_image |-> IF kind = "bare" THEN Null ELSE Some(f.pic),
   pic |-> f.pic,
   live |-> f.live]

\* the handler releasing the latch in its success branch only
PoseAnalysisKeepsLatchOnError(k, kind) ==
  /\ sock[k] = "up"
  /\ inFlight[k] # <<>>
  /\ LET data == Reply(kind, Head(inFlight[k])) IN
       /\ processedImg' = IF data.processed_image # Null
                            THEN data.processed_image ELSE processedImg
       /\ IF data.error # Null
            THEN /\ error' = data.error
                 /\ score' = Null
                 /\ joints' = NoJoints
                 /\ UNCHANGED waitingRef
            ELSE /\ error' = Null
                 /\ score' = data.score
                 /\ joints' = IF data.joints # Null THEN data.joints[1] ELSE NoJoints
                 /\ waitingRef' = FALSE
  /\ inFlight' = [inFlight EXCEPT ![k] = Tail(@)]
  /\ stopCalls' = 0
  /\ UNCHANGED <<streamRef, srcObject, videoReady, canvas, socketRef,
                 frameRequestRef, isActive, isWebcamActive, nStarted, homePending,
                 camPending, nSessions, homeStreams, liveStreams, picture, sock,
                 loops, stopped, unhandled>>
  /\ UNCHANGED outside

\* the handler setting the error without resetting score and joints
PoseAnalysisKeepsScoreOnError(k, kind) ==
  /\ sock[k] = "up"
  /\ inFlight[k] # <<>>
  /\ LET data == Reply(kind, Head(inFlight[k])) IN
       /\ processedImg' = IF data.processed_image # Null
                            THEN data.processed_image ELSE processedImg
       /\ IF data.error # Null
            THEN /\ error' = data.error
                 /\ UNCHANGED <<score, joints>>
            ELSE /\ error' = Null
                 /\ score' = data.score
                 /\ joints' = IF data.joints # Null THEN data.joints[1] ELSE NoJoints
  /\ waitingRef' = FALSE
  /\ inFlight' = [inFlight EXCEPT ![k] = Tail(@)]
  /\ stopCalls' = 0
  /\ UNCHANGED <<streamRef, srcObject, videoReady, canvas, socketRef,
                 frameRequestRef, isActive, isWebcamActive, nStarted, homePending,
                 camPending, nSessions, homeStreams, liveStreams, picture, sock,
                 loops, stopped, unhandled>>
  /\ UNCHANGED outside

\* the "pose_analysis" handler registered on socket k by connectSocket
PoseAnalysis(k, kind) ==
  /\ sock[k] = "up"
  /\ inFlight[k] # <<>>
  /\ LET data == Reply(kind, Head(inFlight[k])) IN
       /\ processedImg' = IF data.processed_image # Null
                            THEN data.processed_image ELSE processedImg
       /\ IF data.error # Null
            THEN /\ error' = data.error
                 /\ score' = Null
                 /\ joints' = NoJoints
            ELSE /\ error' = Null
                 /\ score' = data.score
                 /\ joints' = IF data.joints # Null THEN data.joints[1] ELSE NoJoints
  /\ waitingRef' = FALSE
  /\ inFlight' = [inFlight EXCEPT ![k] = Tail(@)]
  /\ stopCalls' = 0
  /\ UNCHANGED <<streamRef, srcObject, videoReady, canvas, socketRef,
                 frameRequestRef, isActive, isWebcamActive, nStarted, homePending,
                 camPending, nSessions, homeStreams, liveStreams, picture, sock,
                 loops, stopped, unhandled>>
  /\ UNCHANGED outside

\* ------------------------------------------------------------- environment

\* the video element has loaded the stream's metadata: videoWidth > 0
VideoLoaded ==
  /\ srcObject # NoRef
  /\ ~videoReady
  /\ videoReady' = TRUE
  /\ stopCalls' = 0
  /\ UNCHANGED <<streamRef, srcObject, canvas, socketRef, frameRequestRef,
                 waitingRef, processedImg, home, env,
                 stopped, unhandled>>
  /\ UNCHANGED outside

\* the camera delivers its next picture
CameraPicture ==
  /\ picture < MaxPicture
  /\ picture' = picture + 1
  /\ stopCalls' = 0
  /\ UNCHANGED <<client, home, nStarted, homePending, camPending, nSessions,
                 homeStreams, liveStreams, sock, inFlight, loops,
                 stopped, unhandled>>
  /\ UNCHANGED outside

\* a reconnect that sends the unanswered frame again from the canvas
SocketUpResends(k) ==
  /\ sock[k] \in {"connecting", "lost"}
  /\ sock' = [sock EXCEPT ![k] = "up"]
  /\ stopCalls' = 0
  /\ inFlight' = IF k = socketRef /\ waitingRef /\ canvas # 0
                   THEN [inFlight EXCEPT ![k] = Append(@, [pic |-> canvas, live |-> TRUE])]
                   ELSE inFlight
  /\ UNCHANGED <<client, home, nStarted, homePending, camPending, nSessions,
                 homeStreams, liveStreams, picture, loops, stopped, unhandled>>
  /\ UNCHANGED outside

\* Socket.IO (re)connects socket k
SocketUp(k) ==
  /\ sock[k] \in {"connecting", "lost"}
  /\ sock' = [sock EXCEPT ![k] = "up"]
  /\ stopCalls' = 0
  /\ UNCHANGED <<client, home, nStarted, homePending, camPending, nSessions,
                 homeStreams, liveStreams, picture, inFlight, loops,
                 stopped, unhandled>>
  /\ UNCHANGED outside

\* the transport of socket k drops: what was in flight is lost
SocketDown(k) ==
  /\ sock[k] = "up"
  /\ sock' = [sock EXCEPT ![k] = "lost"]
  /\ inFlight' = [inFlight EXCEPT ![k] = <<>>]
  /\ stopCalls' = 0
  /\ UNCHANGED <<client, home, nStarted, homePending, camPending, nSessions,
                 homeStreams, liveStreams, picture, loops,
                 stopped, unhandled>>
  /\ UNCHANGED outside

Next ==
  \/ HandleStartWebcam
  \/ HomeStreamGranted
  \/ HomeStreamDenied
  \/ StartWebcam
  \/ StartWebcamRejected
  \/ StopWebcam
  \/ \E l \in Ids : FrameLoop(l)
  \/ \E k \in Ids, kind \in ReplyKinds : PoseAnalysis(k, kind)
  \/ VideoLoaded
  \/ CameraPicture
  \/ \E k \in Ids : SocketUp(k)
  \/ \E k \in Ids : SocketDown(k)

Spec == Init /\ [][Next]_vars

\* requestAnimationFrame fires its pending callbacks at the display rate, so a
\* tick falls into every period in which the channel is up (strong fairness);
\* the video element loads, Socket.IO keeps reconnecting (reconnection is on by
\* default) and the server answers what it receives; the user's calls and the
\* camera are not obliged to happen
Fairness ==
  /\ \A l \in Ids : SF_vars(FrameLoop(l))
  /\ \A k \in Ids : WF_vars(SocketUp(k))
  /\ \A k \in Ids : WF_vars(\E kind \in ReplyKinds : PoseAnalysis(k, kind))
  /\ WF_vars(VideoLoaded)

LiveSpec == Init /\ [][Next]_vars /\ Fairness

\* ------------------------------------------------------------- downsampling

MAX_WIDTH == 960

\* Math.round of the non-negative quotient n / d: halves round up
Round(n, d) == (2 * n + d) \div (2 * d)

\* Math.round of the double h * scale: the product of doubles is exact up to
\* one rounding, which decides the result only when n / d is exactly a half
\* more than an integer; there the double may fall on either side
RoundDouble(n, d) ==
  IF (2 * n + d) % (2 * d) = 0 /\ d # 1
    THEN {Round(n, d) - 1, Round(n, d)}
    ELSE {Round(n, d)}

\* scale = Math.min(1, MAX_WIDTH / video.videoWidth) without the cap
ScaleUncapped(w) == <<MAX_WIDTH, w>>

\* scale = Math.min(1, MAX_WIDTH / video.videoWidth), as <<numerator, denominator>>
Scale(w) == IF MAX_WIDTH >= w THEN <<1, 1>> ELSE <<MAX_WIDTH, w>>

\* Math.round(video.videoWidth * scale): w * (MAX_WIDTH / w) is within one
\* rounding of MAX_WIDTH, far from a half
TargetWidth(w) == Round(w * Scale(w)[1], Scale(w)[2])
\* Math.round(video.videoHeight * scale)
TargetHeight(w, h) == RoundDouble(h * Scale(w)[1], Scale(w)[2])

\* the sizing part of a tick of frameLoop that gets past the latch
SizeCanvas ==
  /\ videoWidth # 0
  /\ canvasWidth' = TargetWidth(videoWidth)
  /\ canvasHeight' \in TargetHeight(videoWidth, videoHeight)
  /\ UNCHANGED <<videoWidth, videoHeight, webcam, pose, server, others>>

ScaleInit ==
  /\ WebcamIdle /\ PoseIdle /\ ServerIdle /\ OthersIdle
  /\ videoWidth \in 0..MaxVideoWidth
  /\ videoHeight \in 1..MaxVideoHeight
  /\ canvasWidth = 0 /\ canvasHeight = 0

ScaleNext == SizeCanvas

ScaleSpec == ScaleInit /\ [][ScaleNext]_vars

\* ------------------------------------------------------------- pose data
\* The comparator of the back end (back-end/pose_comparison.md) as its design
\* describes it.  Coordinates are hundredths of the normalized unit, angles
\* whole degrees, a central estimate the exact quotient <<numerator, divisor>>.

Joints == {"shoulder", "elbow", "wrist"}
Angles == {"elbow_angle"}
\* the joints of a joint-pair angle: first end, vertex, second end
AngleJoints(a) == <<"shoulder", "elbow", "wrist">>

VISIBILITY_THRESHOLD == 50   \* hundredths: a landmark is used above it

\* arctangent of p / q in whole degrees for 0 <= p <= q, q > 0
\* (45 t + 15.642 t (1 - t), within a quarter of a degree of the arctangent)
AtanDeg(p, q) == Round(45000 * p * q + 15642 * p * (q - p), 1000 * q * q)

\* atan2(y, x) in whole degrees, in -179..180; atan2(0, 0) = 0
Atan2Deg(y, x) ==
  LET ax == Abs(x)
      ay == Abs(y)
      a == IF ax = 0 /\ ay = 0 THEN 0
           ELSE IF ay <= ax THEN AtanDeg(ay, ax)
           ELSE 90 - AtanDeg(ax, ay)
  IN IF x >= 0 THEN (IF y >= 0 THEN a ELSE -a)
     ELSE IF y >= 0 THEN 180 - a
     ELSE IF a = 0 THEN 180 ELSE a - 180

\* the signed angle between the two limb segments that meet at the vertex
LimbAngle(p1, v, p2) ==
  Atan2Deg(p2[2] - v[2], p2[1] - v[1]) - Atan2Deg(p1[2] - v[2], p1[1] - v[1])

\* a NormalizedFrame keeps the landmarks above the visibility threshold;
\* the positions are taken as already expressed in the reference space
Normalize(landmarks) ==
  LET seen == {j \in DOMAIN landmarks :
                 landmarks[j].visibility > VISIBILITY_THRESHOLD}
  IN [j \in seen |-> landmarks[j].position]

Trackable(frame) ==
  {a \in Angles : \A i \in 1..3 : AngleJoints(a)[i] \in DOMAIN frame}

FrameAngle(frame, a) ==
  LimbAngle(frame[AngleJoints(a)[1]], frame[AngleJoints(a)[2]],
            frame[AngleJoints(a)[3]])

\* ------------------------------------------------------------- aggregation
RECURSIVE SumSeq(_)
SumSeq(s) == IF s = <<>> THEN 0 ELSE Head(s) + SumSeq(Tail(s))

\* the k-th smallest of the values of a non-empty sequence
KthSmallest(s, k) ==
  CHOOSE v \in {s[i] : i \in DOMAIN s} :
    /\ Cardinality({i \in DOMAIN s : s[i] < v}) < k
    /\ Cardinality({i \in DOMAIN s : s[i] <= v}) >= k

\* mean of a non-empty sequence of integers
Average(s) == <<SumSeq(s), Len(s)>>

\* the mutation of Median that takes the mean
MedianAsAverage(s) == Average(s)

\* median: the middle value, or the mean of the two middle values
Median(s) ==
  IF Len(s) % 2 = 1 THEN <<KthSmallest(s, (Len(s) + 1) \div 2), 1>>
  ELSE <<KthSmallest(s, Len(s) \div 2) + KthSmallest(s, Len(s) \div 2 + 1), 2>>

Central(s, how) == IF how = "median" THEN Median(s) ELSE Average(s)

\* the frames whose entry in present is true, in order
RECURSIVE SelectFrames(_, _)
SelectFrames(frames, present) ==
  IF frames = <<>> THEN <<>>
  ELSE IF present[1] THEN <<Head(frames)>> \o SelectFrames(Tail(frames), Tail(present))
  ELSE SelectFrames(Tail(frames), Tail(present))

FramesWithJoint(frames, j) ==
  SelectFrames(frames, [i \in DOMAIN frames |-> j \in DOMAIN frames[i]])

FramesWithAngle(frames, a) ==
  SelectFrames(frames, [i \in DOMAIN frames |-> a \in Trackable(frames[i])])

\* collect_baseline(frames, method): for each joint present across the set the
\* central x and y; for each angle trackable in a frame the central angle
CollectBaseline(frames, how) ==
  LET js == {j \in Joints : FramesWithJoint(frames, j) # <<>>}
      as == {a \in Angles : FramesWithAngle(frames, a) # <<>>}
  IN [position |->
        [j \in js |->
           LET fs == FramesWithJoint(frames, j)
           IN <<Central([i \in DOMAIN fs |-> fs[i][j][1]], how),
                Central([i \in DOMAIN fs |-> fs[i][j][2]], how)>>],
      angle |->
        [a \in as |->
           LET fs == FramesWithAngle(frames, a)
           IN Central([i \in DOMAIN fs |-> FrameAngle(fs[i], a)], how)]]

\* ------------------------------------------------------------- scoring
ConfigFields == DOMAIN DefaultConfig

\* the valid range of a threshold: a distance within the unit square, an angle
\* difference in degrees, a percentage
ValidValue(field, v) ==
  CASE field = "position_threshold" -> v \in 0..100
    [] field = "angle_threshold" -> v \in 0..180
    [] field = "accuracy_threshold" -> v \in 0..100

ValidUpdate(updates) == \A f \in DOMAIN updates : ValidValue(f, updates[f])

ApplyUpdate(cfg, updates) ==
  [f \in ConfigFields |-> IF f \in DOMAIN updates THEN updates[f] ELSE cfg[f]]

\* the mutation of Configure that keeps the valid fields of a rejected update
ConfigureFieldwise(cfg, updates) ==
  IF ValidUpdate(updates)
    THEN [config |-> ApplyUpdate(cfg, updates), outcome |-> "accepted"]
    ELSE [config |->
            [f \in ConfigFields |->
               IF f \in DOMAIN updates /\ ValidValue(f, updates[f])
                 THEN updates[f] ELSE cfg[f]],
          outcome |-> "ConfigurationError"]

\* configure(config_updates): the new configuration, or the prior one with
\* ConfigurationError
Configure(cfg, updates) ==
  IF ValidUpdate(updates)
    THEN [config |-> ApplyUpdate(cfg, updates), outcome |-> "accepted"]
    ELSE [config |-> cfg, outcome |-> "ConfigurationError"]

\* the mutation of Bucket whose boundaries fall in the lower bucket
BucketStrict(accurate, evaluated) ==
  IF 100 * accurate > 90 * evaluated THEN "excellent"
  ELSE IF 100 * accurate > 75 * evaluated THEN "good"
  ELSE IF 100 * accurate > 50 * evaluated THEN "fair"
  ELSE "poor"

\* excellent >= 90, good >= 75, fair >= 50, else poor, of accurate / evaluated
Bucket(accurate, evaluated) ==
  IF 100 * accurate >= 90 * evaluated THEN "excellent"
  ELSE IF 100 * accurate >= 75 * evaluated THEN "good"
  ELSE IF 100 * accurate >= 50 * evaluated THEN "fair"
  ELSE "poor"

\* the mutation of JointChecks that evaluates every joint of the baseline
JointChecksOfBaseline(frame, bl) == DOMAIN bl.position

\* the joints both sides have, and the angles trackable from the frame that
\* the baseline has
JointChecks(frame, bl) == DOMAIN frame \cap DOMAIN bl.position
AngleChecks(frame, bl) == Trackable(frame) \cap DOMAIN bl.angle

\* Euclidean distance to the central position at most the threshold; the
\* divisor of the two coordinates is the same
JointAccurate(p, c, cfg) ==
  LET d == c[1][2]
      dx == p[1] * d - c[1][1]
      dy == p[2] * d - c[2][1]
      t == cfg.position_threshold * d
  IN dx * dx + dy * dy <= t * t

\* absolute difference to the central angle at most the threshold
AngleAccurate(a, c, cfg) ==
  Abs(a * c[2] - c[1]) <= cfg.angle_threshold * c[2]

\* the mutation of Score that scores an empty evaluation set 0
ScoreZeroWhenEmpty(accurate, evaluated) ==
  IF evaluated = 0 THEN Some(<<0, 1>>) ELSE Some(<<100 * accurate, evaluated>>)

\* overall accuracy percentage as the quotient <<numerator, divisor>>, null
\* for an empty evaluation set
Score(accurate, evaluated) ==
  IF evaluated = 0 THEN Null ELSE Some(<<100 * accurate, evaluated>>)

\* the overall part of a ComparisonResult
Overall(accurate, evaluated) ==
  [accurate |-> accurate,
   evaluated |-> evaluated,
   score |-> Score(accurate, evaluated),
   bucket |-> IF evaluated = 0 THEN Null ELSE Some(Bucket(accurate, evaluated))]

\* the accurate flag of every joint check; a joint without data in the frame
\* is never accurate
PositionPart(frame, bl, cfg) ==
  [j \in JointChecks(frame, bl) |->
     j \in DOMAIN frame /\ JointAccurate(frame[j], bl.position[j], cfg)]

\* the accurate flag of every angle check
AnglePart(frame, bl, cfg) ==
  [a \in AngleChecks(frame, bl) |->
     AngleAccurate(FrameAngle(frame, a), bl.angle[a], cfg)]

\* the ComparisonResult of the flags of the joint checks and the angle checks
Result(jointOk, angleOk) ==
  [joints |-> jointOk, angles |-> angleOk]
    @@ Overall(Cardinality({j \in DOMAIN jointOk : jointOk[j]})
                 + Cardinality({a \in DOMAIN angleOk : angleOk[a]}),
               Cardinality(DOMAIN jointOk) + Cardinality(DOMAIN angleOk))

\* compare(frame_landmarks, baseline, config) -> ComparisonResult
Compare(frame, bl, cfg) ==
  Result(PositionPart(frame, bl, cfg), AnglePart(frame, bl, cfg))

\* ------------------------------------------------------------- comparator
\* The comparator applied to reference sets and frames of one arm.

Methods == {"median", "average"}

Shoulder == <<40, 50>>
Elbow == <<50, 50>>
Wrists == {<<90, 50>>, <<50, 60>>, <<40, 40>>, <<60, 40>>}

Arm(w) == [j \in Joints |->
             CASE j = "shoulder" -> Shoulder [] j = "elbow" -> Elbow
               [] j = "wrist" -> w]
UpperArm == [j \in {"shoulder", "elbow"} |-> Arm(<<0, 0>>)[j]]
NoPose == [j \in {} |-> <<0, 0>>]

\* the NormalizedFrames reference material yields
ReferenceFrames == {Arm(w) : w \in Wrists} \cup {UpperArm, NoPose}

RECURSIVE SeqsUpTo(_, _)
SeqsUpTo(S, n) ==
  IF n = 0 THEN {<<>>}
  ELSE LET shorter == SeqsUpTo(S, n - 1)
       IN shorter \cup {Append(s, x) : s \in shorter, x \in S}

\* what the detector returns for a frame: per joint found, its position and
\* visibility; a joint at the threshold and a joint well above it
Visibilities == {VISIBILITY_THRESHOLD, 90}
Detections ==
  {[j \in js |-> [position |-> Arm(w)[j], visibility |-> v[j]]] :
     js \in {Joints, {"shoulder", "elbow"}},
     w \in {<<90, 50>>, <<50, 60>>},
     v \in [Joints -> Visibilities]}

\* the frame whose joints are the central positions of a baseline; it exists
\* when they are whole hundredths
CentralIsFrame(bl) ==
  \A j \in DOMAIN bl.position : \A i \in 1..2 :
    bl.position[j][i][1] % bl.position[j][i][2] = 0
CentralFrame(bl) ==
  [j \in DOMAIN bl.position |->
     <<bl.position[j][1][1] \div bl.position[j][1][2],
       bl.position[j][2][1] \div bl.position[j][2][2]>>]

\* collect_baseline over the captured reference frames
Collect ==
  /\ baseline = Null
  /\ baseline' = Some(CollectBaseline(references, method))
  /\ UNCHANGED <<references, method, probe, result>>
  /\ UNCHANGED <<webcam, scaling, server, others>>

\* compare of a detected frame against the baseline
CompareDetection(landmarks) ==
  /\ baseline # Null
  /\ probe' = Some(Normalize(landmarks))
  /\ result' = Some(Compare(Normalize(landmarks), baseline[1], config))
  /\ UNCHANGED <<references, method, baseline>>
  /\ UNCHANGED <<webcam, scaling, server, others>>

\* compare of the frame that sits exactly on the baseline
CompareCentral ==
  /\ baseline # Null
  /\ CentralIsFrame(baseline[1])
  /\ probe' = Some(CentralFrame(baseline[1]))
  /\ result' = Some(Compare(CentralFrame(baseline[1]), baseline[1], config))
  /\ UNCHANGED <<references, method, baseline>>
  /\ UNCHANGED <<webcam, scaling, server, others>>

ScoreInit ==
  /\ WebcamIdle /\ ScaleIdle /\ ServerIdle /\ OthersIdle
  /\ references \in SeqsUpTo(ReferenceFrames, MaxReferences)
  /\ method \in Methods
  /\ baseline = Null /\ probe = Null /\ result = Null

ScoreNext ==
  \/ Collect
  \/ \E landmarks \in Detections : CompareDetection(landmarks)
  \/ CompareCentral

ScoreSpec == ScoreInit /\ [][ScoreNext]_vars

\* ------------------------------------------------------------- session server
\* One session of the Session Server: the baseline and the configuration it
\* owns, the frames it is sent and the one scoring call it has in flight.

\* the reference sets a baseline is collected from or set to
ServerReferences == {<<Arm(<<90, 50>>)>>, <<Arm(<<50, 60>>)>>}

\* the updates clients send to configure
ConfigUpdates ==
  {[f \in {"angle_threshold"} |-> -5],
   [f \in {"angle_threshold"} |-> 30],
   [f \in {"position_threshold", "angle_threshold"} |->
      IF f = "position_threshold" THEN 20 ELSE -5]}

\* an inbound frame: whether the image decodes, and what the detector returns
\* for it
NoLandmarks == [j \in {} |-> [position |-> <<0, 0>>, visibility |-> 0]]
Seen(frame) == [j \in DOMAIN frame |-> [position |-> frame[j], visibility |-> 90]]
Image(l) == [decodes |-> TRUE, landmarks |-> l]
Undecodable == [decodes |-> FALSE, landmarks |-> NoLandmarks]
Inputs ==
  {Undecodable, Image(NoLandmarks), Image(Seen(Arm(<<90, 50>>))),
   Image(Seen(UpperArm))}

\* a reply of the streaming protocol; frame, against and used record what a
\* score was computed from
ErrorReply(e) ==
  Some([score |-> Null, error |-> Some(e), result |-> Null,
        frame |-> Null, against |-> Null, used |-> Null])
ScoreReply(r, frame, bl, cfg) ==
  Some([score |-> r.score, error |-> Null, result |-> Some(r),
        frame |-> Some(frame), against |-> Some(bl), used |-> Some(cfg)])

\* the mutation of Failure in which a session that has refused a comparison
\* keeps refusing
FailureSticky(input, bl) ==
  IF ~input.decodes THEN Some("DecodeError")
  ELSE IF Normalize(input.landmarks) = NoPose THEN Some("DetectionError")
  ELSE IF bl = Null \/ refused THEN Some("NoBaselineError")
  ELSE Null

\* the failure a frame meets before any scoring starts, or null
Failure(input, bl) ==
  IF ~input.decodes THEN Some("DecodeError")
  ELSE IF Normalize(input.landmarks) = NoPose THEN Some("DetectionError")
  ELSE IF bl = Null THEN Some("NoBaselineError")
  ELSE Null

\* the reply a frame gets from a session with this baseline and configuration
ExpectedReply(input, bl, cfg) ==
  IF Failure(input, bl) # Null THEN ErrorReply(Failure(input, bl)[1])
  ELSE ScoreReply(Compare(Normalize(input.landmarks), bl[1], cfg),
                  Normalize(input.landmarks), bl[1], cfg)

\* the mutation of BaselineRead that reads the active baseline of the session
ActiveBaselineRead(c) == baseline[1]

\* the baseline a step of a scoring call reads: the snapshot reference the call
\* was given when it started
BaselineRead(c) == c.snapshot

\* collect-baseline or set-baseline: the new BaselinePosture replaces the
\* active reference in one step
SetBaseline(frames, how) ==
  /\ baseline' = Some(CollectBaseline(frames, how))
  /\ UNCHANGED <<references, method, probe, result>>
  /\ UNCHANGED <<webcam, scaling, server, others>>

\* configure(config_updates)
ConfigureCall(updates) ==
  /\ config' = Configure(config, updates).config
  /\ outcome' = Some(Configure(config, updates).outcome)
  /\ UNCHANGED <<call, reply, refused>>
  /\ UNCHANGED <<webcam, scaling, pose, others>>

\* the mutation of ReceiveFrame that drops the baseline when a frame fails
ReceiveFrameResets(input) ==
  /\ IF Failure(input, baseline) # Null
       THEN /\ reply' = ErrorReply(Failure(input, baseline)[1])
            /\ refused' = (refused \/ Failure(input, baseline) = Some("NoBaselineError"))
            /\ baseline' = Null
            /\ UNCHANGED call
       ELSE /\ call = Null
            /\ call' = Some([frame |-> Normalize(input.landmarks),
                             snapshot |-> baseline[1],
                             config |-> config, joints |-> Null])
            /\ UNCHANGED <<reply, refused, baseline>>
  /\ UNCHANGED <<config, outcome, references, method, probe, result>>
  /\ UNCHANGED <<webcam, scaling, others>>

\* an inbound frame: decode, detect, normalize; a failure is replied at once,
\* otherwise a scoring call starts against the current baseline
ReceiveFrame(input) ==
  /\ IF Failure(input, baseline) # Null
       THEN /\ reply' = ErrorReply(Failure(input, baseline)[1])
            /\ refused' = (refused \/ Failure(input, baseline) = Some("NoBaselineError"))
            /\ UNCHANGED call
       ELSE /\ call = Null
            /\ call' = Some([frame |-> Normalize(input.landmarks),
                             snapshot |-> baseline[1],
                             config |-> config, joints |-> Null])
            /\ UNCHANGED <<reply, refused>>
  /\ UNCHANGED <<config, outcome>>
  /\ UNCHANGED <<webcam, scaling, pose, others>>

\* the scoring call in flight scores the joint positions
ScorePositions ==
  /\ call # Null /\ call[1].joints = Null
  /\ call' = Some([call[1] EXCEPT !.joints =
                     Some(PositionPart(call[1].frame, BaselineRead(call[1]),
                                       call[1].config))])
  /\ UNCHANGED <<config, reply, outcome, refused>>
  /\ UNCHANGED <<webcam, scaling, pose, others>>

\* the scoring call in flight scores the angles and replies
ScoreAngles ==
  /\ call # Null /\ call[1].joints # Null
  /\ reply' = ScoreReply(Result(call[1].joints[1],
                                AnglePart(call[1].frame, BaselineRead(call[1]),
                                          call[1].config)),
                         call[1].frame, call[1].snapshot, call[1].config)
  /\ call' = Null
  /\ UNCHANGED <<config, outcome, refused>>
  /\ UNCHANGED <<webcam, scaling, pose, others>>

ServerInit == WebcamIdle /\ ScaleIdle /\ PoseIdle /\ ServerIdle /\ OthersIdle

ServerNext ==
  \/ \E frames \in ServerReferences, how \in Methods : SetBaseline(frames, how)
  \/ \E updates \in ConfigUpdates : ConfigureCall(updates)
  \/ \E input \in Inputs : ReceiveFrame(input)
  \/ ScorePositions
  \/ ScoreAngles

ServerSpec == ServerInit /\ [][ServerNext]_vars

\* ------------------------------------------------------------- grading
\* The overall part of a ComparisonResult for every count of accurate checks
\* among up to MaxChecks evaluated ones.
Grade(accurate, evaluated) ==
  /\ result' = Some(Overall(accurate, evaluated))
  /\ UNCHANGED <<references, method, baseline, probe>>
  /\ UNCHANGED <<webcam, scaling, server, others>>

BucketInit == WebcamIdle /\ ScaleIdle /\ PoseIdle /\ ServerIdle /\ OthersIdle

BucketNext ==
  \E evaluated \in 0..MaxChecks : \E accurate \in 0..evaluated :
    Grade(accurate, evaluated)

BucketSpec == BucketInit /\ [][BucketNext]_vars

\* ------------------------------------------------------------- samples
\* Baseline collection over the samples of one joint.
Samples == {<<50, 30>>, <<90, 90>>, <<90, 10>>}
Sample(p) == [j \in {"wrist"} |-> p]

AddSample(p) ==
  /\ baseline = Null
  /\ Len(references) < MaxSamples
  /\ references' = Append(references, Sample(p))
  /\ UNCHANGED <<method, baseline, probe, result>>
  /\ UNCHANGED <<webcam, scaling, server, others>>

CollectSamples(how) ==
  /\ baseline = Null
  /\ references # <<>>
  /\ method' = how
  /\ baseline' = Some(CollectBaseline(references, how))
  /\ UNCHANGED <<references, probe, result>>
  /\ UNCHANGED <<webcam, scaling, server, others>>

AggregateInit == WebcamIdle /\ ScaleIdle /\ PoseIdle /\ ServerIdle /\ OthersIdle

AggregateNext ==
  \/ \E p \in Samples : AddSample(p)
  \/ \E how \in Methods : CollectSamples(how)

AggregateSpec == AggregateInit /\ [][AggregateNext]_vars

\* ------------------------------------------------------------- WebcamStream
\* The HTTP-polling WebcamStream (unnamed/part_005): an interval posts a
\* screenshot to /score and applies the response when its fetch settles.

notPolling == <<webcam, scaling, pose, server, toning, bridge, firmware, metronome,
               tuner>>

PollScores == {5, 95}
FetchOutcomes == {"ok", "notok", "failed"}

\* the effect runs on mount: the interval is set
PollMount ==
  /\ ~pollMounted /\ pollIssued = 0
  /\ pollMounted' = TRUE
  /\ UNCHANGED <<pollIssued, pollPending, pollLoading, pollScore, pollError,
                 pollShown>>
  /\ UNCHANGED notPolling

\* the interval callback up to its await: with a screenshot it sets loading
\* and posts it; without one only the finally block runs
PollTick(shot) ==
  /\ pollMounted
  /\ IF shot
       THEN /\ pollIssued < MaxPolls
            /\ pollLoading' = Some(TRUE)
            /\ pollIssued' = pollIssued + 1
            /\ pollPending' = pollPending \cup {pollIssued + 1}
       ELSE /\ pollLoading' = Some(FALSE)
            /\ UNCHANGED <<pollIssued, pollPending>>
  /\ UNCHANGED <<pollMounted, pollScore, pollError, pollShown>>
  /\ UNCHANGED notPolling

\* the fetch of request id settles and the callback runs to its end: an ok
\* response sets the score, another response or a rejection the error; the
\* finally block clears loading
PollSettle(id, how, value) ==
  /\ id \in pollPending
  /\ pollPending' = pollPending \ {id}
  /\ IF how = "ok"
       THEN pollScore' = Some(value) /\ pollError' = Null
       ELSE /\ pollError' = Some(IF how = "notok" THEN "Failed to get score"
                                                  ELSE "Connection error")
            /\ pollScore' = Null
  /\ pollLoading' = Some(FALSE)
  /\ pollShown' = id
  /\ UNCHANGED <<pollMounted, pollIssued>>
  /\ UNCHANGED notPolling

\* the cleanup of the effect: clearInterval
PollUnmount ==
  /\ pollMounted
  /\ pollMounted' = FALSE
  /\ UNCHANGED <<pollIssued, pollPending, pollLoading, pollScore, pollError,
                 pollShown>>
  /\ UNCHANGED notPolling

PollInit == WebcamIdle /\ ScaleIdle /\ PoseIdle /\ ServerIdle /\ OthersIdle

PollNext ==
  \/ PollMount
  \/ \E shot \in BOOLEAN : PollTick(shot)
  \/ \E id \in 1..MaxPolls, how \in FetchOutcomes, value \in PollScores :
       PollSettle(id, how, value)
  \/ PollUnmount

PollSpec == PollInit /\ [][PollNext]_vars

\* ------------------------------------------------------------- play-tone
\* Home's effect on [score, lastToneScore] (pages/Home.jsx, lines 65-75).
\* React runs the effect after the render that follows a change of one of
\* its dependencies, and before it renders the next update.

notTone == <<client, error, joints, isActive, isWebcamActive, env, hist,
             scaling, pose, server, polling, bridge, firmware, metronome, tuner>>

ToneScores == {Null, Some(3), Some(7), Some(10), Some(50)}

BelowTen(s) == s # Null /\ s[1] < 10

\* setScore(v), through onScoreUpdate: a render follows when the value differs
SetScore(v) ==
  /\ ~toneEffectDue
  /\ toneRequests < MaxTones /\ toneDrops < MaxTones
  /\ score' = v
  /\ toneEffectDue' = (v # score)
  /\ toneDrops' = IF BelowTen(v) /\ ~BelowTen(score)
                    THEN toneDrops + 1 ELSE toneDrops
  /\ UNCHANGED <<lastToneScore, toneRequests>>
  /\ UNCHANGED notTone

\* the effect body
ToneEffect ==
  /\ toneEffectDue
  /\ IF score # Null /\ score[1] < 10 /\ score # lastToneScore
       THEN /\ toneRequests' = toneRequests + 1
            /\ lastToneScore' = score
            /\ toneEffectDue' = TRUE
       ELSE /\ toneEffectDue' = FALSE
            /\ UNCHANGED <<lastToneScore, toneRequests>>
  /\ UNCHANGED <<score, toneDrops>>
  /\ UNCHANGED notTone

ToneInit == WebcamIdle /\ ScaleIdle /\ PoseIdle /\ ServerIdle /\ OthersIdle

ToneNext ==
  \/ \E v \in ToneScores : SetScore(v)
  \/ ToneEffect

ToneSpec == ToneInit /\ [][ToneNext]_vars

\* ------------------------------------------------------------- serial bridge
\* The HTTP-to-serial bridge and the buzzer firmware
\* (back-end/INCORRECT_BUZZER_SOUND/INCORRECT_BUZZER_SOUND.ino).

notBridge == <<webcam, scaling, pose, server, polling, toning, metronome, tuner>>

NotConnected == [status |-> 500, body |-> "Serial port not connected"]
WriteFailed == [status |-> 500, body |-> "write error"]
TonePlayed == [status |-> 200, body |-> "tone played"]

Occurrences(line, s) == Cardinality({i \in DOMAIN s : s[i] = line})

\* initializeSerial, from the callback of app.listen
InitializeSerial ==
  /\ serialPort = Null
  /\ serialPort' = Some([isOpen |-> FALSE])
  /\ UNCHANGED <<posts, writing, answers, writes, portSeen>>
  /\ UNCHANGED <<firmware, notBridge>>

\* the port opens, or closes on an error or an unplugged board
PortFlips ==
  /\ serialPort # Null
  /\ serialPort' = Some([isOpen |-> ~serialPort[1].isOpen])
  /\ UNCHANGED <<posts, writing, answers, writes, portSeen>>
  /\ UNCHANGED <<firmware, notBridge>>

\* the handler without its check of the port
PlayToneUnchecked(r) ==
  /\ r = posts + 1 /\ r \in Posts
  /\ posts' = r
  /\ portSeen' = [portSeen EXCEPT ![r] = serialPort # Null /\ serialPort[1].isOpen]
  /\ writes' = [writes EXCEPT ![r] = Append(@, "PLAY_TONE")]
  /\ writing' = writing \cup {r}
  /\ UNCHANGED <<serialPort, answers>>
  /\ UNCHANGED <<firmware, notBridge>>

\* app.post('/play-tone') up to the return of serialPort.write
PlayTone(r) ==
  /\ r = posts + 1 /\ r \in Posts
  /\ posts' = r
  /\ portSeen' = [portSeen EXCEPT ![r] = serialPort # Null /\ serialPort[1].isOpen]
  /\ IF serialPort = Null \/ ~serialPort[1].isOpen
       THEN /\ answers' = [answers EXCEPT ![r] = Append(@, NotConnected)]
            /\ UNCHANGED <<writes, writing>>
       ELSE /\ writes' = [writes EXCEPT ![r] = Append(@, "PLAY_TONE")]
            /\ writing' = writing \cup {r}
            /\ UNCHANGED answers
  /\ UNCHANGED serialPort
  /\ UNCHANGED <<firmware, notBridge>>

\* the callback of serialPort.write: the line reached the board, or the write
\* failed
WriteCallback(r, err) ==
  /\ r \in writing
  /\ writing' = writing \ {r}
  /\ IF err
       THEN /\ answers' = [answers EXCEPT ![r] = Append(@, WriteFailed)]
            /\ UNCHANGED serial
       ELSE /\ answers' = [answers EXCEPT ![r] = Append(@, TonePlayed)]
            /\ serial' = Append(serial, writes[r][1])
  /\ UNCHANGED <<serialPort, posts, writes, portSeen>>
  /\ UNCHANGED <<commands, tones, oks, notBridge>>

\* a line that does not come from the bridge (a serial monitor)
OtherLine ==
  /\ Occurrences("STOP", serial \o commands) < MaxNoise
  /\ serial' = Append(serial, "STOP")
  /\ UNCHANGED <<commands, tones, oks>>
  /\ UNCHANGED <<bridge, notBridge>>

\* loop() with a line available
Loop ==
  /\ serial # <<>>
  /\ serial' = Tail(serial)
  /\ commands' = Append(commands, Head(serial))
  /\ tones' = IF Head(serial) = "PLAY_TONE" THEN tones + 1 ELSE tones
  /\ oks' = oks + 1
  /\ UNCHANGED <<bridge, notBridge>>

BridgeInit == WebcamIdle /\ ScaleIdle /\ PoseIdle /\ ServerIdle /\ OthersIdle

BridgeNext ==
  \/ InitializeSerial
  \/ PortFlips
  \/ \E r \in Posts : PlayTone(r)
  \/ \E r \in Posts, err \in BOOLEAN : WriteCallback(r, err)
  \/ OtherLine
  \/ Loop

BridgeSpec == BridgeInit /\ [][BridgeNext]_vars

\* ------------------------------------------------------------- Metronome
\* front-end/src/components/Metronome.jsx.  A click on a control is a
\* discrete event: React renders its state update and runs the effects of
\* that render before anything else runs, so the handler and the effect on
\* [bpm, timeSignature] are one step.

notMetronome == <<webcam, scaling, pose, server, polling, toning, bridge,
                  firmware, tuner>>

TIME_SIGNATURES == {2, 3, 4, 6}
BpmSteps == {-5, -1, 1, 5}
SliderStops == {20, 23, 298, 300}     \* positions of the range input
Delays == {500, 2500}                  \* milliseconds between two events
Bursts == 0..2                         \* notes due at one run of scheduler
Infinity == 1000000                    \* 60000 / 0, which Math.min only compares

Min(a, b) == IF a < b THEN a ELSE b
Max(a, b) == IF a > b THEN a ELSE b

\* Math.max(20, Math.min(300, newBpm)) without the lower limit
ClampAbove(newBpm) == Min(300, newBpm)

\* Math.max(20, Math.min(300, newBpm))
Clamp(newBpm) == Max(20, Min(300, newBpm))

\* the intervals left when stopMetronome clears none
NotCleared == timers

\* the intervals left by clearInterval(intervalRef.current)
Cleared ==
  IF intervalRef = Null THEN timers
  ELSE {t \in timers : t.id # intervalRef[1]}

FreeTimer(active) ==
  CHOOSE i \in 1..MaxTimers :
    /\ i \notin {t.id : t \in active}
    /\ \A j \in 1..MaxTimers : j \notin {t.id : t \in active} => i <= j

\* startMetronome in a render whose time signature has the given beats,
\* with the intervals that are active when it runs
Started(beats, active) ==
  /\ \E i \in 1..MaxTimers : i \notin {t.id : t \in active}
  /\ currentBeatRef' = 0
  /\ nextNoteDue' = TRUE
  /\ intervalRef' = Some(FreeTimer(active))
  /\ timers' = active \cup {[id |-> FreeTimer(active), beats |-> beats]}
  /\ isPlaying' = TRUE
  /\ clicks' = <<>>

\* the effect on [bpm, timeSignature] after a render in which one of them
\* changed: stopMetronome, then startMetronome, when playing
Effect(changed, beats) ==
  IF changed /\ isPlaying
    THEN Started(beats, Cleared) /\ currentBeat' = 0
    ELSE UNCHANGED player

\* the Start button
StartMetronome ==
  /\ ~isPlaying
  /\ Started(timeSignature, timers)
  /\ UNCHANGED <<bpm, timeSignature, presses, currentBeat, tapping>>
  /\ UNCHANGED notMetronome

\* the Stop button
StopMetronome ==
  /\ isPlaying
  /\ timers' = Cleared
  /\ intervalRef' = Null
  /\ isPlaying' = FALSE
  /\ currentBeat' = 0
  /\ currentBeatRef' = 0
  /\ UNCHANGED <<bpm, timeSignature, presses, nextNoteDue, clicks, tapping>>
  /\ UNCHANGED notMetronome

\* handleBpmChange and the effect that follows
handleBpmChange(newBpm) ==
  /\ bpm' = Clamp(newBpm)
  /\ Effect(Clamp(newBpm) # bpm, timeSignature)

\* the -5, -1, +1 and +5 buttons
BpmButton(step) ==
  /\ presses < MaxPresses
  /\ presses' = presses + 1
  /\ handleBpmChange(bpm + step)
  /\ UNCHANGED <<timeSignature, tapping>>
  /\ UNCHANGED notMetronome

\* the range input, whose value the browser keeps within min and max
Slider(v) ==
  /\ presses < MaxPresses
  /\ presses' = presses + 1
  /\ handleBpmChange(v)
  /\ UNCHANGED <<timeSignature, tapping>>
  /\ UNCHANGED notMetronome

\* a time signature button, and the effect that follows
SetTimeSignature(beats) ==
  /\ timeSignature' = beats
  /\ Effect(beats # timeSignature, beats)
  /\ UNCHANGED <<bpm, presses, tapping>>
  /\ UNCHANGED notMetronome

\* the beat i iterations of the loop of scheduler after currentBeatRef
Beat(i, beats) == (currentBeatRef + i) % beats

\* scheduler, run by an active interval, with n notes due; each click is
\* recorded with the time signature selected when it sounds
Scheduler(n) ==
  /\ nextNoteDue => n >= 1
  /\ Len(clicks) + n <= MaxClicks
  /\ \E t \in timers :
       /\ clicks' = clicks \o
            [i \in 1..n |-> [beat |-> Beat(i - 1, t.beats),
                             isAccent |-> Beat(i - 1, t.beats) = 0,
                             beats |-> timeSignature]]
       /\ currentBeatRef' = Beat(n, t.beats)
       /\ currentBeat' = IF n = 0 THEN currentBeat ELSE Beat(n - 1, t.beats)
  /\ nextNoteDue' = FALSE
  /\ UNCHANGED <<bpm, timeSignature, presses, isPlaying, intervalRef, timers,
                 tapping>>
  /\ UNCHANGED notMetronome

\* the taps kept after the push: the last four
KeepLast(taps) == IF Len(taps) > 4 THEN Tail(taps) ELSE taps

\* Math.round(60000 / avgInterval) over the kept taps: the intervals sum to
\* the last tap minus the first
TapBpm(taps) ==
  LET total == taps[Len(taps)] - taps[1]
      count == Len(taps) - 1
  IN  IF total = 0 THEN {Infinity}
      ELSE IF total > 0 THEN RoundDouble(60000 * count, total)
      ELSE {(2 * (0 - 60000 * count) + (0 - total)) \div (2 * (0 - total))}

\* handleTapTempo
handleTapTempo ==
  /\ tapTimes' = KeepLast(Append(tapTimes, now))
  /\ IF Len(tapTimes') >= 2
       THEN \E newBpm \in TapBpm(tapTimes') : handleBpmChange(newBpm)
       ELSE UNCHANGED <<bpm, player>>
  /\ timeouts' = timeouts \cup {now + 2000}
  /\ UNCHANGED <<timeSignature, presses, now>>
  /\ UNCHANGED notMetronome

\* the callback of the timeout a tap set
TapTimeout ==
  /\ \E due \in timeouts : due <= now /\ timeouts' = timeouts \ {due}
  /\ tapTimes' = IF tapTimes # <<>> /\ now - tapTimes[Len(tapTimes)] > 2000
                   THEN <<>> ELSE tapTimes
  /\ UNCHANGED <<bpm, timeSignature, presses, player, now>>
  /\ UNCHANGED notMetronome

\* time passes; a timeout runs before the clock moves on from its due time
ClockAdvance(d) ==
  /\ now + d <= MaxClock
  /\ \A due \in timeouts : due > now
  /\ now' = now + d
  /\ UNCHANGED <<bpm, timeSignature, presses, player, tapTimes, timeouts>>
  /\ UNCHANGED notMetronome

TempoInit == WebcamIdle /\ ScaleIdle /\ PoseIdle /\ ServerIdle /\ OthersIdle

TempoNext ==
  \/ \E step \in BpmSteps : BpmButton(step)
  \/ \E v \in SliderStops : Slider(v)
  \/ handleTapTempo
  \/ TapTimeout
  \/ \E d \in Delays : ClockAdvance(d)

TempoSpec == TempoInit /\ [][TempoNext]_vars

MetronomeInit == WebcamIdle /\ ScaleIdle /\ PoseIdle /\ ServerIdle /\ OthersIdle

MetronomeNext ==
  \/ StartMetronome
  \/ StopMetronome
  \/ \E step \in BpmSteps : BpmButton(step)
  \/ \E beats \in TIME_SIGNATURES : SetTimeSignature(beats)
  \/ \E n \in Bursts : Scheduler(n)

MetronomeSpec == MetronomeInit /\ [][MetronomeNext]_vars

\* ------------------------------------------------------------- Tuner
\* autoCorrelate and updatePitch of front-end/src/components/Tuner.jsx on one
\* analyser frame.  Samples are multiples of 1/128, so the sums of the code
\* are exact; a number is a fraction n / d with d > 0, NaN or an infinity.
\* Of the pitch display only frequency is kept: note, octave and cents are
\* set in the same batch from the same freq.

notTuner == <<webcam, scaling, pose, server, polling, toning, bridge, firmware,
              metronome>>

Unit == 128
Amplitudes == {0, 16}
SampleRates == {8000, 44100}
Buffers == [1..BufferLength -> Amplitudes]

RECURSIVE GCD(_, _)
GCD(a, b) == IF b = 0 THEN a ELSE GCD(b, a % b)

NaN == [kind |-> "NaN", n |-> 0, d |-> 1]
Inf(sign) == [kind |-> "Infinity", n |-> sign, d |-> 1]
Num(n, d) ==
  LET g == GCD(Abs(n), Abs(d))
  IN  IF d < 0 THEN [kind |-> "number", n |-> (0 - n) \div g, d |-> (0 - d) \div g]
      ELSE [kind |-> "number", n |-> n \div g, d |-> d \div g]

\* a / b where 0 / 0 is taken to be 0
DivZeroByZeroIsZero(a, b) ==
  IF a.kind # "number" \/ b.kind # "number" THEN NaN
  ELSE IF b.n = 0 THEN (IF a.n = 0 THEN Num(0, 1) ELSE Inf(IF a.n > 0 THEN 1 ELSE -1))
  ELSE Num(a.n * b.d, a.d * b.n)

\* a / b of two numbers that are finite or NaN
Div(a, b) ==
  IF a.kind # "number" \/ b.kind # "number" THEN NaN
  ELSE IF b.n = 0 THEN (IF a.n = 0 THEN NaN ELSE Inf(IF a.n > 0 THEN 1 ELSE -1))
  ELSE Num(a.n * b.d, a.d * b.n)

\* a + b of two numbers that are finite or NaN
Plus(a, b) ==
  IF a.kind # "number" \/ b.kind # "number" THEN NaN
  ELSE Num(a.n * b.d + b.n * a.d, a.d * b.d)

\* a < b: false when either is NaN
Less(a, b) ==
  /\ a.kind # "NaN" /\ b.kind # "NaN"
  /\ IF a.kind = "Infinity" THEN a.n < 0 /\ b # a
     ELSE IF b.kind = "Infinity" THEN b.n > 0
     ELSE a.n * b.d < b.n * a.d

MAX_SAMPLES(b) == Len(b) \div 2

\* rms < 0.01, with rms = Math.sqrt(sum of squares / SIZE)
Silent(b) ==
  10000 * SumSeq([i \in 1..Len(b) |-> b[i] * b[i]]) < Unit * Unit * Len(b)

\* the sum of |buffer[i] - buffer[i + offset]| over i < MAX_SAMPLES
Distance(b, offset) ==
  SumSeq([i \in 1..MAX_SAMPLES(b) |-> Abs(b[i] - b[i + offset])])

\* correlation = 1 - distance / MAX_SAMPLES, in 1 / (Unit * MAX_SAMPLES)
Correlation(b, offset) == Unit * MAX_SAMPLES(b) - Distance(b, offset)

\* the loop over offset: last, best and the result's fractions are over
\* Unit * MAX_SAMPLES
RECURSIVE Correlate(_, _, _, _, _, _, _)
Correlate(b, rate, offset, last, found, best, bestOffset) ==
  LET whole == Unit * MAX_SAMPLES(b)
      correlation == Correlation(b, offset)
      difference == Num(correlation - last, whole)
      moved == Div(difference, difference)
  IN  IF offset >= MAX_SAMPLES(b)
        THEN [freq |-> IF 100 * best > whole
                         THEN Div(Num(rate, 1), Num(bestOffset, 1))
                         ELSE Num(-1, 1),
              refined |-> Null]
      ELSE IF 10 * correlation > 9 * whole /\ correlation > last
        THEN Correlate(b, rate, offset + 1, correlation, TRUE,
                       IF correlation > best THEN correlation ELSE best,
                       IF correlation > best THEN offset ELSE bestOffset)
      ELSE IF found
        THEN [freq |-> Div(Num(rate, 1), Plus(Num(bestOffset, 1), moved)),
              refined |-> Some([difference |-> difference, shift |-> moved,
                                bestOffset |-> bestOffset])]
      ELSE Correlate(b, rate, offset + 1, correlation, found, best, bestOffset)

autoCorrelate(b, rate) ==
  IF Silent(b) THEN [freq |-> Num(-1, 1), refined |-> Null]
  ELSE Correlate(b, rate, 0, Unit * MAX_SAMPLES(b), FALSE, 0, -1)

\* updatePitch on the frame
UpdatePitch ==
  /\ ~pitchDone
  /\ pitchDone' = TRUE
  /\ LET out == autoCorrelate(buffer, sampleRate)
     IN  /\ refined' = out.refined
         /\ frequency' = IF Less(Num(0, 1), out.freq) /\ Less(out.freq, Num(2000, 1))
                           THEN Some(out.freq) ELSE frequency
  /\ UNCHANGED <<buffer, sampleRate, prior>>
  /\ UNCHANGED notTuner

TunerInit ==
  /\ WebcamIdle /\ ScaleIdle /\ PoseIdle /\ ServerIdle
  /\ PollIdle /\ ToneIdle /\ BridgeIdle /\ MetronomeIdle
  /\ buffer \in Buffers
  /\ sampleRate \in SampleRates
  /\ frequency \in {Null, Some(Num(440, 1))}
  /\ prior = frequency
  /\ pitchDone = FALSE /\ refined = Null

TunerNext == UpdatePitch

TunerSpec == TunerInit /\ [][TunerNext]_vars

\* ------------------------------------------------------------- claims

OpenSockets == {k \in Ids : sock[k] \in {"connecting", "up", "lost"}}
LiveFrames(k) == {i \in DOMAIN inFlight[k] : inFlight[k][i].live}
Pics(q) == [i \in DOMAIN q |-> q[i].pic]
Connected == socketRef # NoRef /\ sock[socketRef] = "up"
nonHandle == <<streamRef, srcObject, videoReady, canvas, socketRef, waitingRef,
               processedImg, home, env, stopped, unhandled>>

\* C1: of the frames emitted since the last stop, at most one is awaiting its
\* reply at any time.
SingleFlight ==
  Cardinality(UNION {{<<k, i>> : i \in LiveFrames(k)} : k \in Ids}) <= 1

\* C2: a reply to a frame sent before a stop leaves score, joints, error,
\* processed image and latch as they are.
StaleReplyDiscarded ==
  [][\A k \in Ids, kind \in ReplyKinds :
       (PoseAnalysis(k, kind) /\ ~Head(inFlight[k]).live)
         => UNCHANGED <<score, joints, error, processedImg, waitingRef>>]_vars

\* C3: once stop has been called and until the next start call, no camera
\* stream, no open channel and no scheduled capture callback is held.
ReleasedAfterStop ==
  stopped => /\ liveStreams = {}
             /\ homeStreams = 0
             /\ OpenSockets = {}
             /\ loops = {}

\* C4: stopWebcam never raises, and called directly after stopWebcam it
\* changes no session state.
StopIdempotent ==
  [][StopWebcam =>
       /\ unhandled' = unhandled
       /\ stopCalls >= 1 =>
            UNCHANGED <<frameRequestRef, loops, socketRef, sock, inFlight,
                        streamRef, liveStreams, srcObject, videoReady, waitingRef,
                        processedImg, isActive, isWebcamActive, canvas,
                        score, error, joints>>]_vars

StoppedTwice == stopCalls = 2 /\ nSessions >= 1

\* C5: a tick with the latch set changes nothing but the handle of the next
\* tick, and every frame that is emitted was captured by the tick emitting it.
SkippedTickOnlyReschedules ==
  [][/\ \A l \in Ids : (FrameLoop(l) /\ waitingRef) => UNCHANGED nonHandle
     /\ \A k \in Ids :
          Len(inFlight'[k]) > Len(inFlight[k])
            => /\ ~waitingRef
               /\ canvas' = picture
               /\ inFlight'[k][Len(inFlight'[k])].pic = canvas']_vars

SkippableTick ==
  /\ waitingRef /\ videoReady /\ Connected
  /\ loops # {}
  /\ canvas # picture

\* C6: the handler clears the latch for every reply, the latch is set by
\* ticks only, and a tick with the latch clear, a connected channel and a
\* ready video emits one frame.
ReplyReleasesLatch ==
  [][/\ \A k \in Ids, kind \in ReplyKinds : PoseAnalysis(k, kind) => ~waitingRef'
     /\ (~waitingRef /\ waitingRef') => \E l \in Ids : FrameLoop(l)
     /\ \A l \in Ids :
          (FrameLoop(l) /\ ~waitingRef /\ videoReady /\ Connected)
            => /\ waitingRef'
               /\ inFlight'[socketRef] = Append(inFlight[socketRef], Frame)]_vars

ReleasedByErrorReply ==
  /\ error # Null /\ ~waitingRef
  /\ videoReady /\ Connected
  /\ socketRef \in loops

\* C7: whenever the session's channel is lost while a capture loop runs, the
\* client later sends a frame on its channel, shows a service-unavailable
\* error, or has been stopped.
ChannelLost == socketRef # NoRef /\ sock[socketRef] = "lost" /\ loops # {}
Sending == socketRef # NoRef /\ inFlight[socketRef] # <<>>
Surfaced == error = Some("Score service unavailable")
NeverSilentlySpinning ==
  [](ChannelLost => <>(Sending \/ Surfaced \/ socketRef = NoRef))

\* C8: at most one channel is open and at most one capture loop is scheduled.
OneChannelOneLoop ==
  /\ Cardinality(OpenSockets) <= 1
  /\ Cardinality(loops) <= 1

\* C9: a step adds at most one frame to the channels, only a tick with the
\* latch clear adds one, and it adds the picture it captured; otherwise frames
\* only leave the channels.
AtMostOncePerTick ==
  [][\A k \in Ids :
       LET a == Pics(inFlight[k])
           b == Pics(inFlight'[k])
       IN \/ b = a
          \/ b = <<>>
          \/ a # <<>> /\ b = Tail(a)
          \/ /\ b = Append(a, picture)
             /\ k = socketRef
             /\ ~waitingRef
             /\ canvas' = picture
             /\ \E l \in Ids : FrameLoop(l)
             /\ \A j \in Ids \ {k} : inFlight'[j] = inFlight[j]]_vars

LostFrameNotResent ==
  /\ waitingRef /\ Connected
  /\ inFlight[socketRef] = <<>>
  /\ videoReady /\ socketRef \in loops
  /\ canvas # 0

\* C10: a shown error always comes with a null score and no joints; the
\* handler sets error, score and joints together from the reply, so a reply
\* without an error clears the error.
ErrorAppliedAtomically ==
  /\ [](error # Null => score = Null /\ joints = NoJoints)
  /\ [][\A k \in Ids, kind \in ReplyKinds :
          PoseAnalysis(k, kind) =>
            IF kind = "err"
              THEN error' # Null /\ score' = Null /\ joints' = NoJoints
              ELSE error' = Null]_vars

ErrorShown == error # Null /\ processedImg # Null /\ waitingRef


\* C11: a sized canvas is at most 960 wide and never wider than the source,
\* its height is the source height scaled by the factor of the width up to the
\* rounding of half a pixel, and a source no wider than 960 keeps its size.
DownsampleBounded ==
  canvasWidth # 0 =>
    /\ canvasWidth <= MAX_WIDTH
    /\ canvasWidth <= videoWidth
    /\ 2 * Abs(canvasHeight * videoWidth - videoHeight * canvasWidth) <= videoWidth
    /\ videoWidth <= MAX_WIDTH =>
         canvasWidth = videoWidth /\ canvasHeight = videoHeight

DownsampledWithRounding ==
  /\ canvasWidth # 0
  /\ videoWidth > MAX_WIDTH
  /\ canvasHeight * videoWidth # videoHeight * canvasWidth


\* a score that is present and equal to pct per cent
ScoreIs(r, pct) == r.score # Null /\ r.score[1][1] = pct * r.score[1][2]
Compared == baseline # Null /\ probe # Null /\ result # Null
OnBaseline ==
  /\ Compared
  /\ CentralIsFrame(baseline[1])
  /\ probe[1] = CentralFrame(baseline[1])
  /\ probe[1] # NoPose

\* C12: a frame whose joints are exactly the central positions of the baseline
\* scores 100 against it (stated for a frame that has a joint).
CentralFrameScoresFull == OnBaseline => ScoreIs(result[1], 100)

\* C13: a frame with no joint above the visibility threshold has a null score,
\* neither 0 nor 100.
EmptyFrameScoresNull ==
  (Compared /\ probe[1] = NoPose) =>
    /\ result[1].score = Null
    /\ ~ScoreIs(result[1], 0) /\ ~ScoreIs(result[1], 100)
EmptyFrameCompared ==
  /\ Compared /\ probe[1] = NoPose
  /\ DOMAIN baseline[1].position = Joints

Without(frame, j) == [k \in DOMAIN frame \ {j} |-> frame[k]]
Inaccurate(r) == r.evaluated - r.accurate

\* C14: the checks of a comparison are the joints both sides have and the
\* angles both sides have, the score is the accurate ones over exactly these
\* times 100, and the frame without one of its joints has no more inaccurate
\* checks.
AbsentExcluded ==
  Compared =>
    LET r == result[1]
        both == DOMAIN probe[1] \cap DOMAIN baseline[1].position
        bothAngles == Trackable(probe[1]) \cap DOMAIN baseline[1].angle
    IN /\ DOMAIN r.joints = both
       /\ DOMAIN r.angles = bothAngles
       /\ r.evaluated = Cardinality(both) + Cardinality(bothAngles)
       /\ r.accurate = Cardinality({j \in both : r.joints[j]})
                         + Cardinality({a \in bothAngles : r.angles[a]})
       /\ r.evaluated > 0 => r.score = Some(<<100 * r.accurate, r.evaluated>>)
       /\ \A j \in DOMAIN probe[1] :
            Inaccurate(Compare(Without(probe[1], j), baseline[1], config))
              <= Inaccurate(r)
WristOutOfSight ==
  /\ Compared
  /\ DOMAIN probe[1] = {"shoulder", "elbow"}
  /\ DOMAIN baseline[1].position = Joints
  /\ DOMAIN baseline[1].angle = Angles
  /\ result[1].evaluated = 2
  /\ ScoreIs(result[1], 100)

ValidConfig(cfg) == \A f \in ConfigFields : ValidValue(f, cfg[f])
Rejected(updates) == ConfigureCall(updates) /\ ~ValidUpdate(updates)

\* C15: a configure call with a threshold out of range returns
\* ConfigurationError and changes no field of the configuration, and every
\* configuration a comparison uses has all its thresholds in range.
ConfigRejectedAtomically ==
  /\ [](/\ ValidConfig(config)
        /\ call # Null => ValidConfig(call[1].config)
        /\ (reply # Null /\ reply[1].used # Null) => ValidConfig(reply[1].used[1]))
  /\ [][\A updates \in ConfigUpdates :
          Rejected(updates) =>
            /\ config' = config
            /\ outcome' = Some("ConfigurationError")]_vars
ComparedAfterRejection ==
  /\ outcome = Some("ConfigurationError")
  /\ config.angle_threshold = 30
  /\ reply # Null /\ reply[1].used = Some(config)

Refusal(input) ==
  ReceiveFrame(input) /\ Failure(input, baseline) = Some("NoBaselineError")

\* C16: a comparison is refused with NoBaselineError exactly when it is
\* requested with no baseline loaded; the refusal carries no score and changes
\* neither baseline, configuration nor the call in flight, and with a baseline
\* loaded no frame is refused.
NoBaselineRefused ==
  /\ [](/\ (reply # Null /\ reply[1].error = Some("NoBaselineError")) =>
             reply[1].score = Null /\ reply[1].result = Null
        /\ \A input \in Inputs :
             (Failure(input, baseline) = Some("NoBaselineError")) <=>
               (baseline = Null /\ input.decodes
                  /\ Normalize(input.landmarks) # NoPose))
  /\ [][\A input \in Inputs :
          Refusal(input) =>
            /\ reply' = ErrorReply("NoBaselineError")
            /\ UNCHANGED <<baseline, config, call>>]_vars
ScoredAfterRefusal ==
  /\ refused
  /\ reply # Null /\ reply[1].error = Null /\ reply[1].score # Null

Baselines == {CollectBaseline(frames, how) : frames \in ServerReferences, how \in Methods}

FrameFails(input) == ReceiveFrame(input) /\ Failure(input, baseline) # Null

\* C19: a frame that fails is answered with an error and leaves baseline,
\* configuration and the call in flight as they were, so every frame sent next
\* gets the reply it would have got without the failing one.
FrameFailureHarmless ==
  [][\A input \in Inputs :
       FrameFails(input) =>
         /\ reply'[1].error # Null
         /\ UNCHANGED <<baseline, config, call>>
         /\ \A next \in Inputs :
              ExpectedReply(next, baseline', config')
                = ExpectedReply(next, baseline, config)]_vars
FailedBesideCall ==
  /\ reply # Null /\ reply[1].error = Some("DecodeError")
  /\ baseline # Null /\ call # Null

Graded == result # Null /\ result[1].evaluated > 0
Pct100(r) == 100 * r.accurate
AtLeast(r, pct) == Pct100(r) >= pct * r.evaluated

\* C17: every accuracy percentage has exactly one bucket: excellent from 90,
\* good from 75 to below 90, fair from 50 to below 75, poor below 50.
BucketTotal ==
  Graded =>
    LET r == result[1]
    IN /\ r.bucket \in {Some(b) : b \in {"excellent", "good", "fair", "poor"}}
       /\ (r.bucket = Some("excellent")) <=> AtLeast(r, 90)
       /\ (r.bucket = Some("good")) <=> (AtLeast(r, 75) /\ ~AtLeast(r, 90))
       /\ (r.bucket = Some("fair")) <=> (AtLeast(r, 50) /\ ~AtLeast(r, 75))
       /\ (r.bucket = Some("poor")) <=> ~AtLeast(r, 50)
OnBoundary ==
  /\ Graded
  /\ Pct100(result[1]) = 90 * result[1].evaluated
  /\ result[1].bucket = Some("excellent")

\* the samples and the collected central position of the joint
Xs == [i \in DOMAIN references |-> references[i]["wrist"][1]]
Ys == [i \in DOMAIN references |-> references[i]["wrist"][2]]
Count(p) == Cardinality({i \in DOMAIN references : references[i] = Sample(p)})
CentralIs(p) ==
  /\ baseline[1].position["wrist"][1][1] = p[1] * baseline[1].position["wrist"][1][2]
  /\ baseline[1].position["wrist"][2][1] = p[2] * baseline[1].position["wrist"][2][2]
FourAndOne ==
  /\ Len(references) = 5
  /\ Count(<<50, 30>>) = 4 /\ Count(<<90, 90>>) = 1
\* the mean of s with v appended is nearer to v than the mean of s, or on it
Pulled(s, v) ==
  LET n == Len(s)
      before == Abs(SumSeq(s) - n * v)
      after == Abs(Average(Append(s, v))[1] - (n + 1) * v)
  IN /\ Average(Append(s, v))[2] = n + 1
     /\ after * n <= before * (n + 1)
     /\ before > 0 => after * n < before * (n + 1)

\* C20: four samples (0.50,0.30) and one (0.90,0.90) give the central position
\* (0.50,0.30) by median and (0.58,0.42) by average; the median of samples
\* most of which are one point is that point, and one more sample pulls the
\* average toward it.
MedianRobustAveragePulled ==
  /\ (baseline # Null /\ FourAndOne) =>
       IF method = "median" THEN CentralIs(<<50, 30>>) ELSE CentralIs(<<58, 42>>)
  /\ (baseline # Null /\ method = "median") =>
       \A p \in Samples : 2 * Count(p) > Len(references) => CentralIs(p)
  /\ \A p \in Samples :
       Len(references) > 0 => Pulled(Xs, p[1]) /\ Pulled(Ys, p[2])
OutlierIgnored ==
  /\ baseline # Null /\ FourAndOne
  /\ method = "median" /\ CentralIs(<<50, 30>>)
  /\ references[5] = Sample(<<90, 90>>)

Emits == \E k \in Ids : Len(inFlight'[k]) > Len(inFlight[k])

\* C21: from a call of stopWebcam until the next call of handleStartWebcam no
\* step emits a video_frame.
SilentAfterStop == [][stopped => ~Emits]_vars

\* C22: with ticks firing fairly the in-flight latch never stays set forever:
\* whenever it is set it is cleared later, so another frame can be sent.
LatchReleased == waitingRef ~> ~waitingRef

\* C23: the latch goes from clear to set only in a step that emits a frame, a
\* tick without a ready video or a connected channel leaves a clear latch
\* clear, and while the latch is clear no frame emitted since the last stop is
\* awaiting its reply.
LatchMeansUnanswered ==
  /\ [][(~waitingRef /\ waitingRef') => Emits]_vars
  /\ [][\A l \in Ids :
          (FrameLoop(l) /\ ~waitingRef /\ ~(videoReady /\ Connected))
            => ~waitingRef' /\ ~Emits]_vars
  /\ [](~waitingRef => \A k \in Ids : LiveFrames(k) = {})

\* a frame known to have been sent after the head of the queue of socket k:
\* one queued behind it, or one sent after the stop that the head precedes
NewerInFlight(k) ==
  \/ Len(inFlight[k]) > 1
  \/ /\ ~Head(inFlight[k]).live
     /\ \E j \in Ids : LiveFrames(j) # {}

\* C24: the handler applies a reply only when no frame sent after the
\* answered one is in flight.
NewestReplyApplied ==
  [][\A k \in Ids, kind \in ReplyKinds :
       PoseAnalysis(k, kind) => ~NewerInFlight(k)]_vars

\* C25: at most one POST /score is outstanding, loading is true exactly while
\* one is outstanding, and a response is applied only if it answers the
\* request issued last.
PollOneOutstanding ==
  /\ [](/\ Cardinality(pollPending) <= 1
        /\ (pollLoading = Some(TRUE)) <=> (pollPending # {}))
  /\ [][\A id \in 1..MaxPolls, how \in FetchOutcomes, value \in PollScores :
          PollSettle(id, how, value) => id = pollIssued]_vars

\* C26: once the play-tone effect has run, Home has issued exactly one
\* play-tone request for each drop of the score from null or 10 and above to
\* a value below 10.
ToneOncePerDrop == ~toneEffectDue => toneRequests = toneDrops

\* C27: the bridge answers a POST /play-tone at most once, and exactly once
\* when no write of it is pending; with the port missing or closed the
\* answer is 500 'Serial port not connected' and nothing is written;
\* otherwise exactly one PLAY_TONE line is written and the answer is 'tone
\* played' or a 500 for the write error; the firmware has sounded one tone
\* for each PLAY_TONE line it read and printed one OK for each line.
BridgeAnswersOnce ==
  /\ \A r \in Posts :
       /\ Len(answers[r]) = (IF r <= posts /\ r \notin writing THEN 1 ELSE 0)
       /\ r <= posts =>
            IF portSeen[r]
              THEN /\ writes[r] = <<"PLAY_TONE">>
                   /\ answers[r] # <<>> => answers[r][1] \in {TonePlayed, WriteFailed}
              ELSE /\ writes[r] = <<>>
                   /\ answers[r] = <<NotConnected>>
  /\ tones = Occurrences("PLAY_TONE", commands)
  /\ oks = Len(commands)

BridgeServedBoth ==
  /\ \E r \in Posts : answers[r] = <<NotConnected>>
  /\ \E r \in Posts : answers[r] = <<TonePlayed>>
  /\ tones = 1 /\ oks = 2

\* C28: whatever BPM buttons, slider moves and tap-tempo taps have happened,
\* bpm is within 20..300 and tapTimes holds at most 4 taps.
TempoBounded == bpm \in 20..300 /\ Len(tapTimes) <= 4

FastTapsClamped ==
  /\ Len(tapTimes) = 4 /\ tapTimes[4] - tapTimes[1] = 500
  /\ bpm = 300 /\ presses = 0

\* C29: currentBeatRef and currentBeat are within 0..beats-1 of the selected
\* time signature; the first click after a start is beat 0 and accented, and
\* each later click is the beat after the one before it, modulo beats; at
\* most one interval is active; none is active while stopped, and a click
\* sounds only while playing.
BeatsInOrder ==
  /\ [](/\ currentBeatRef \in 0..(timeSignature - 1)
        /\ currentBeat \in 0..(timeSignature - 1)
        /\ clicks # <<>> => clicks[1].beat = 0
        /\ \A i \in DOMAIN clicks :
             /\ clicks[i].isAccent <=> clicks[i].beat = 0
             /\ i > 1 => clicks[i].beat = (clicks[i - 1].beat + 1) % clicks[i].beats
        /\ Cardinality(timers) <= 1
        /\ ~isPlaying => timers = {})
  /\ [][Len(clicks') > Len(clicks) => isPlaying]_vars

RestartedInThree ==
  /\ isPlaying /\ timeSignature = 3 /\ bpm # 120
  /\ Len(clicks) = 4 /\ clicks[4].beat = 0

\* C30: when the refinement step of autoCorrelate runs, the shift is 1 for
\* every nonzero correlation difference; for a zero difference the shift is
\* NaN and updatePitch leaves the display as it was before the frame.
ShiftDegenerate ==
  (pitchDone /\ refined # Null) =>
     IF refined[1].difference.n # 0
       THEN refined[1].shift = Num(1, 1)
       ELSE refined[1].shift = NaN /\ frequency = prior

PlateauLeavesDisplay ==
  /\ pitchDone /\ refined # Null
  /\ refined[1].difference.n = 0
  /\ refined[1].bestOffset >= 4 /\ sampleRate = 8000
  /\ frequency # Null

=============================================================================
